---- MODULE Spec2Model ----
(***************************************************************************)
(* Model of deno_ast's src/parsing.rs: the parse entry points, the private  *)
(* parse() orchestration, parse_string_input(), scope_analysis_transform()  *)
(* and the get_syntax() media-type table.                                   *)
(*                                                                         *)
(* The swc lexer/parser is an external engine.  It is modelled as a        *)
(* deterministic function of (source text, syntax, parse mode) over source *)
(* texts that are short sequences of lexeme classes:                       *)
(*   "stmt"   an ordinary statement token                                  *)
(*   "cmt"    a comment (goes to the comment index, is not a token)        *)
(*   "export" a module item (makes a program a module; illegal in a script)*)
(*   "ext"    a construct that needs the JSX toggle of the syntax;         *)
(*            a recoverable error when the toggle is off                   *)
(*   "fatal"  a construct the engine cannot recover from                   *)
(***************************************************************************)
EXTENDS Integers, Sequences, FiniteSets, TLC

VARIABLES pc, params, parse_mode, post_process, syntax, comments, program,
          tokens, diagnostics, syntax_contexts, ret, calls, hook_input

vars == <<pc, params, parse_mode, post_process, syntax, comments, program,
          tokens, diagnostics, syntax_contexts, ret, calls, hook_input>>

\* Longest source text (in lexemes) the model explores.
MaxLen == 2

-----------------------------------------------------------------------------
\* Option<T> is a set with at most one element.
None == {}

Some(v) == {v}

Unwrap(o) == CHOOSE v \in o : TRUE

\* Result<T, E>
Ok(v) == [ok |-> TRUE, val |-> v]

Err(e) == [ok |-> FALSE, err |-> e]

\* The increasing sequence of the elements of a finite set of integers.
RECURSIVE SeqOfSet(_)
SeqOfSet(S) ==
  IF S = {} THEN <<>>
  ELSE LET m == CHOOSE x \in S : \A y \in S : x <= y
       IN  <<m>> \o SeqOfSet(S \ {m})

-----------------------------------------------------------------------------
\* The request space.

ES_VERSION == "Es2021"

MediaType == {"JavaScript", "Jsx", "Mjs", "Cjs", "TypeScript", "Mts", "Cts",
              "Dts", "Dmts", "Dcts", "Tsx", "Json", "Wasm", "TsBuildInfo",
              "SourceMap", "Unknown"}

ParseMode == {"Program", "Module", "Script"}

Lexemes == {"stmt", "cmt", "export", "ext", "fatal"}

SourceTexts == UNION {[1..n -> Lexemes] : n \in 0..MaxLen}

Specifiers == {"my_file.js", "my_file.ts"}

\* Explicit grammar overrides a caller may pass in ParseParams.maybe_syntax.
\* Neither coincides with a row of the get_syntax table.
CustomSyntaxes ==
  { [flavor |-> "Es",
     allow_return_outside_function |-> FALSE,
     allow_super_outside_method |-> FALSE,
     auto_accessors |-> FALSE,
     decorators |-> TRUE,
     decorators_before_export |-> TRUE,
     export_default_from |-> FALSE,
     fn_bind |-> TRUE,
     import_attributes |-> FALSE,
     jsx |-> TRUE,
     explicit_resource_management |-> FALSE],
    [flavor |-> "Typescript",
     decorators |-> FALSE,
     disallow_ambiguous_jsx_like |-> FALSE,
     dts |-> FALSE,
     tsx |-> FALSE,
     no_early_errors |-> TRUE] }

ParseParams ==
  [specifier : Specifiers,
   text_info : SourceTexts,
   media_type : MediaType,
   capture_tokens : BOOLEAN,
   scope_analysis : BOOLEAN,
   maybe_syntax : {None} \cup {Some(s) : s \in CustomSyntaxes}]

-----------------------------------------------------------------------------
\* get_syntax: the default Syntax for a media type.

TypeScriptKinds ==
  {"TypeScript", "Mts", "Cts", "Dts", "Dmts", "Dcts", "Tsx"}

EcmaScriptKinds ==
  {"JavaScript", "Mjs", "Cjs", "Jsx", "Json", "Wasm", "TsBuildInfo",
   "SourceMap", "Unknown"}

\* get_syntax with a slip: ambient-only mode is on for .d.ts alone.
get_syntax_DtsOnly(media_type) ==
  CASE media_type \in TypeScriptKinds ->
         [flavor |-> "Typescript",
          decorators |-> TRUE,
          disallow_ambiguous_jsx_like |-> media_type \in {"Mts", "Cts"},
          dts |-> media_type = "Dts",
          tsx |-> media_type = "Tsx",
          no_early_errors |-> FALSE]
    [] media_type \in EcmaScriptKinds ->
         [flavor |-> "Es",
          allow_return_outside_function |-> TRUE,
          allow_super_outside_method |-> TRUE,
          auto_accessors |-> TRUE,
          decorators |-> FALSE,
          decorators_before_export |-> FALSE,
          export_default_from |-> TRUE,
          fn_bind |-> FALSE,
          import_attributes |-> TRUE,
          jsx |-> media_type = "Jsx",
          explicit_resource_management |-> TRUE]

\* get_syntax with a slip: JSX is on for plain JavaScript as well.
get_syntax_JsxInJs(media_type) ==
  CASE media_type \in TypeScriptKinds ->
         [flavor |-> "Typescript",
          decorators |-> TRUE,
          disallow_ambiguous_jsx_like |-> media_type \in {"Mts", "Cts"},
          dts |-> media_type \in {"Dts", "Dmts", "Dcts"},
          tsx |-> media_type = "Tsx",
          no_early_errors |-> FALSE]
    [] media_type \in EcmaScriptKinds ->
         [flavor |-> "Es",
          allow_return_outside_function |-> TRUE,
          allow_super_outside_method |-> TRUE,
          auto_accessors |-> TRUE,
          decorators |-> FALSE,
          decorators_before_export |-> FALSE,
          export_default_from |-> TRUE,
          fn_bind |-> FALSE,
          import_attributes |-> TRUE,
          jsx |-> media_type \in {"Jsx", "JavaScript"},
          explicit_resource_management |-> TRUE]

get_syntax(media_type) ==
  CASE media_type \in TypeScriptKinds ->
         [flavor |-> "Typescript",
          decorators |-> TRUE,
          disallow_ambiguous_jsx_like |-> media_type \in {"Mts", "Cts"},
          dts |-> media_type \in {"Dts", "Dmts", "Dcts"},
          tsx |-> media_type = "Tsx",
          no_early_errors |-> FALSE]
    [] media_type \in EcmaScriptKinds ->
         [flavor |-> "Es",
          allow_return_outside_function |-> TRUE,
          allow_super_outside_method |-> TRUE,
          auto_accessors |-> TRUE,
          decorators |-> FALSE,
          decorators_before_export |-> FALSE,
          export_default_from |-> TRUE,
          fn_bind |-> FALSE,
          import_attributes |-> TRUE,
          jsx |-> media_type = "Jsx",
          explicit_resource_management |-> TRUE]

\* SelectSyntax with a slip: the override is merged with the table (the
\* decorators toggle is taken from the media type).
SelectSyntaxMerged(p) ==
  IF p.maybe_syntax # None
  THEN [Unwrap(p.maybe_syntax) EXCEPT
          !.decorators = get_syntax(p.media_type).decorators]
  ELSE get_syntax(p.media_type)

\* parse(): params.maybe_syntax.unwrap_or_else(|| get_syntax(media_type))
SelectSyntax(p) ==
  IF p.maybe_syntax # None THEN Unwrap(p.maybe_syntax)
  ELSE get_syntax(p.media_type)

-----------------------------------------------------------------------------
\* The external engine (swc lexer and parser), as parse_string_input uses it.

\* Syntax::jsx(): the JSX toggle of either flavor.
SyntaxJsx(syn) == IF syn.flavor = "Es" THEN syn.jsx ELSE syn.tsx

\* Lexer::new(syntax, ES_VERSION, input, Some(&comments))
LexerNew(syn, target, input) ==
  [syntax |-> syn, target |-> target, input |-> input, capturing |-> FALSE]

\* Capturing::new(lexer): the same lexer, buffering every token it yields.
CapturingNew(lexer) == [lexer EXCEPT !.capturing = TRUE]

\* The comments the lexer adds to the comment index while lexing.
LexedComments(lexer) ==
  LET ps == SeqOfSet({i \in DOMAIN lexer.input : lexer.input[i] = "cmt"})
  IN  [k \in 1..Len(ps) |-> [pos |-> ps[k]]]

\* The tokens the lexer yields: every lexeme that is not a comment.
LexedTokens(lexer) ==
  LET ps == SeqOfSet({i \in DOMAIN lexer.input : lexer.input[i] # "cmt"})
  IN  [k \in 1..Len(ps) |-> [token |-> lexer.input[ps[k]], pos |-> ps[k]]]

\* The body of the tree: the lexemes of the tokens.
ParsedBody(lexer) ==
  LET ts == LexedTokens(lexer) IN [k \in 1..Len(ts) |-> ts[k].token]

\* Positions the parser cannot recover from when parsing `item` ("Module",
\* "Script" or "Program").
UnrecoverableAt(lexer, item) ==
  {i \in DOMAIN lexer.input :
     \/ lexer.input[i] = "fatal"
     \/ item = "Script" /\ lexer.input[i] = "export"}

FirstUnrecoverable(lexer, item) ==
  LET i == SeqOfSet(UnrecoverableAt(lexer, item))[1]
  IN  [span |-> i, kind |-> lexer.input[i]]

\* Parser::parse_module(): Result<Module, Error>
ParserParseModule(lexer) ==
  IF UnrecoverableAt(lexer, "Module") # {}
  THEN Err(FirstUnrecoverable(lexer, "Module"))
  ELSE Ok(ParsedBody(lexer))

\* Parser::parse_script(): Result<Script, Error>
ParserParseScript(lexer) ==
  IF UnrecoverableAt(lexer, "Script") # {}
  THEN Err(FirstUnrecoverable(lexer, "Script"))
  ELSE Ok(ParsedBody(lexer))

\* Parser::parse_program(): Result<Program, Error>; a module when the text
\* has a module item, a script otherwise.
ParserParseProgram(lexer) ==
  IF UnrecoverableAt(lexer, "Program") # {}
  THEN Err(FirstUnrecoverable(lexer, "Program"))
  ELSE Ok([kind |-> IF \E i \in DOMAIN lexer.input : lexer.input[i] = "export"
                    THEN "Module" ELSE "Script",
           body |-> ParsedBody(lexer),
           resolved |-> FALSE])

\* Parser::take_errors(): the recoverable errors collected, in source order.
ParserTakeErrors(lexer) ==
  LET ps == SeqOfSet({i \in DOMAIN lexer.input :
                        lexer.input[i] = "ext" /\ ~SyntaxJsx(lexer.syntax)})
  IN  [k \in 1..Len(ps) |-> [span |-> ps[k], kind |-> lexer.input[ps[k]]]]

\* Capturing::take(): the tokens buffered so far; nothing is buffered by a
\* lexer that is not capturing.
CapturingTake(lexer) ==
  IF lexer.capturing THEN LexedTokens(lexer) ELSE <<>>

\* Program::Module(module)
ProgramModule(body) == [kind |-> "Module", body |-> body, resolved |-> FALSE]

\* Program::Script(script)
ProgramScript(body) == [kind |-> "Script", body |-> body, resolved |-> FALSE]

-----------------------------------------------------------------------------
\* parse_string_input: Result<(comments, program, tokens, errors), SwcError>

\* ParseCapturing with a slip: Module mode calls parse_program.
ParseCapturingModuleAsProgram(lexer, mode) ==
  LET capturing == CapturingNew(lexer)
      parsed ==
        CASE mode = "Program" -> ParserParseProgram(capturing)
          [] mode = "Module" -> ParserParseProgram(capturing)
          [] mode = "Script" ->
               LET s == ParserParseScript(capturing)
               IN  IF s.ok THEN Ok(ProgramScript(s.val)) ELSE s
  IN  IF ~parsed.ok THEN Err(parsed.err)
      ELSE Ok([comments |-> LexedComments(capturing),
               program |-> parsed.val,
               tokens |-> Some(CapturingTake(capturing)),
               errors |-> ParserTakeErrors(capturing)])

\* The branch taken when capture_tokens is true (lines 216-227).
ParseCapturing(lexer, mode) ==
  LET capturing == CapturingNew(lexer)
      parsed ==
        CASE mode = "Program" -> ParserParseProgram(capturing)
          [] mode = "Module" ->
               LET m == ParserParseModule(capturing)
               IN  IF m.ok THEN Ok(ProgramModule(m.val)) ELSE m
          [] mode = "Script" ->
               LET s == ParserParseScript(capturing)
               IN  IF s.ok THEN Ok(ProgramScript(s.val)) ELSE s
  IN  IF ~parsed.ok THEN Err(parsed.err)
      ELSE Ok([comments |-> LexedComments(capturing),
               program |-> parsed.val,
               tokens |-> Some(CapturingTake(capturing)),
               errors |-> ParserTakeErrors(capturing)])

\* ParseStreaming with a slip: Module mode calls parse_program, which
\* decides the variant from the text.
ParseStreamingModuleAsProgram(lexer, mode) ==
  LET parsed ==
        CASE mode = "Program" -> ParserParseProgram(lexer)
          [] mode = "Module" -> ParserParseProgram(lexer)
          [] mode = "Script" ->
               LET s == ParserParseScript(lexer)
               IN  IF s.ok THEN Ok(ProgramScript(s.val)) ELSE s
  IN  IF ~parsed.ok THEN Err(parsed.err)
      ELSE Ok([comments |-> LexedComments(lexer),
               program |-> parsed.val,
               tokens |-> None,
               errors |-> ParserTakeErrors(lexer)])

\* ParseStreaming with a slip: the streaming branch hands back what an
\* uncapturing lexer buffered (an empty sequence) instead of None.
ParseStreamingEmptyTokens(lexer, mode) ==
  LET parsed ==
        CASE mode = "Program" -> ParserParseProgram(lexer)
          [] mode = "Module" ->
               LET m == ParserParseModule(lexer)
               IN  IF m.ok THEN Ok(ProgramModule(m.val)) ELSE m
          [] mode = "Script" ->
               LET s == ParserParseScript(lexer)
               IN  IF s.ok THEN Ok(ProgramScript(s.val)) ELSE s
  IN  IF ~parsed.ok THEN Err(parsed.err)
      ELSE Ok([comments |-> LexedComments(lexer),
               program |-> parsed.val,
               tokens |-> Some(CapturingTake(lexer)),
               errors |-> ParserTakeErrors(lexer)])

\* The branch taken when capture_tokens is false (lines 228-238).
ParseStreaming(lexer, mode) ==
  LET parsed ==
        CASE mode = "Program" -> ParserParseProgram(lexer)
          [] mode = "Module" ->
               LET m == ParserParseModule(lexer)
               IN  IF m.ok THEN Ok(ProgramModule(m.val)) ELSE m
          [] mode = "Script" ->
               LET s == ParserParseScript(lexer)
               IN  IF s.ok THEN Ok(ProgramScript(s.val)) ELSE s
  IN  IF ~parsed.ok THEN Err(parsed.err)
      ELSE Ok([comments |-> LexedComments(lexer),
               program |-> parsed.val,
               tokens |-> None,
               errors |-> ParserTakeErrors(lexer)])

parse_string_input(input, syn, capture_tokens, mode) ==
  LET lexer == LexerNew(syn, ES_VERSION, input)
  IN  IF capture_tokens THEN ParseCapturing(lexer, mode)
      ELSE ParseStreaming(lexer, mode)

-----------------------------------------------------------------------------
\* Values built by other modules of the crate.

\* Diagnostic::from_swc_error(err, &specifier, source)
FromSwcError(err, specifier, source) ==
  [specifier |-> specifier, source |-> source,
   span |-> err.span, kind |-> err.kind]

\* MultiThreadedComments::from_single_threaded(comments)
FromSingleThreaded(cs) == [shared |-> TRUE, inner |-> cs]

\* ParsedSource::new(...)
ParsedSourceNew(spec, media, text, cmts, prog, toks, ctxs, diags) ==
  [specifier |-> spec, media_type |-> media, text_info |-> text,
   comments |-> cmts, program |-> prog, tokens |-> toks,
   syntax_contexts |-> ctxs, diagnostics |-> diags]

\* ParsedSource::tokens(): panics when the tokens were not captured.
ParsedSourceTokens(ps) ==
  IF ps.tokens = None THEN Err("Tokens not found because they were not captured during parsing.")
  ELSE Ok(Unwrap(ps.tokens))

\* ParsedSource::top_level_context(): panics without scope analysis.
ParsedSourceTopLevelContext(ps) ==
  IF ps.syntax_contexts = None
  THEN Err("Could not get syntax context because the source was not parsed with scope analysis.")
  ELSE Ok(Unwrap(ps.syntax_contexts).top_level)

\* ParsedSource::unresolved_context(): panics without scope analysis.
ParsedSourceUnresolvedContext(ps) ==
  IF ps.syntax_contexts = None
  THEN Err("Could not get syntax context because the source was not parsed with scope analysis.")
  ELSE Ok(Unwrap(ps.syntax_contexts).unresolved)

-----------------------------------------------------------------------------
\* The post-process hooks callers pass.

\* Hooks over a Module or a Script (FnOnce(Module) -> Module).
ItemHooks == {"inject"}

\* Hooks over a Program (FnOnce(Program) -> Program); a Program hook may
\* also return the other variant.
ProgramHooks == {"inject", "swap_variant"}

\* The caller's function applied to the body of a module or script.
ApplyItemHook(f, body) ==
  IF f = "inject" THEN <<"injected">> \o body ELSE body

\* The caller's function applied to a program.
ApplyProgramHook(f, tree) ==
  CASE f = "identity" -> tree
    [] f = "inject" -> [tree EXCEPT !.body = ApplyItemHook(f, @)]
    [] f = "swap_variant" ->
         [tree EXCEPT !.kind = IF @ = "Module" THEN "Script" ELSE "Module"]

\* The closure parse() receives: the caller's Program hook as is, or the
\* wrapper parse_module_with_post_process / parse_script_with_post_process
\* builds around an item hook.  Err is the panic of unreachable!() on the
\* other variant.
ApplyPostProcess(pp, tree) ==
  CASE pp.wrap = "Program" -> Ok(ApplyProgramHook(pp.f, tree))
    [] pp.wrap = "Module" ->
         IF tree.kind = "Module"
         THEN Ok(ProgramModule(ApplyItemHook(pp.f, tree.body)))
         ELSE Err("unreachable")
    [] pp.wrap = "Script" ->
         IF tree.kind = "Script"
         THEN Ok(ProgramScript(ApplyItemHook(pp.f, tree.body)))
         ELSE Err("unreachable")

-----------------------------------------------------------------------------
\* scope_analysis_transform_inner: the resolver pass and the two contexts
\* made from fresh marks in fresh Globals.
scope_analysis_transform_inner(tree) ==
  [program |-> [tree EXCEPT !.resolved = TRUE],
   syntax_contexts |-> Some([unresolved |-> 1, top_level |-> 2])]

-----------------------------------------------------------------------------
\* CollectDiagnostics with a slip: the diagnostics come out in reverse order.
CollectDiagnosticsReversed(errors, specifier, source) ==
  [k \in 1..Len(errors) |->
     FromSwcError(errors[Len(errors) + 1 - k], specifier, source)]

\* parse(): errors.into_iter().map(from_swc_error).collect() (lines 134-137)
CollectDiagnostics(errors, specifier, source) ==
  [k \in 1..Len(errors) |-> FromSwcError(errors[k], specifier, source)]

-----------------------------------------------------------------------------
\* The state machine of one parse call.

Init ==
  /\ pc = "idle"
  /\ params = None
  /\ parse_mode = "Program"
  /\ post_process = [wrap |-> "Program", f |-> "identity"]
  /\ syntax = None
  /\ comments = <<>>
  /\ program = None
  /\ tokens = None
  /\ diagnostics = <<>>
  /\ syntax_contexts = None
  /\ ret = None
  /\ calls = <<>>
  /\ hook_input = None

\* parse(): entry; picks the syntax (lines 122-128).  The entry points below
\* call it when no parse is in progress.
ParseEnter(p, mode, pp) ==
  /\ params' = Some(p)
  /\ parse_mode' = mode
  /\ post_process' = pp
  /\ syntax' = Some(SelectSyntax(p))
  /\ pc' = "parse_string_input"
  /\ UNCHANGED <<comments, program, tokens, diagnostics, syntax_contexts,
                 ret, calls, hook_input>>

parse_program ==
  /\ pc = "idle"
  /\ \E p \in ParseParams :
       ParseEnter(p, "Program", [wrap |-> "Program", f |-> "identity"])

parse_program_with_post_process ==
  /\ pc = "idle"
  /\ \E p \in ParseParams, f \in ProgramHooks :
       ParseEnter(p, "Program", [wrap |-> "Program", f |-> f])

parse_module ==
  /\ pc = "idle"
  /\ \E p \in ParseParams :
       ParseEnter(p, "Module", [wrap |-> "Program", f |-> "identity"])

parse_module_with_post_process ==
  /\ pc = "idle"
  /\ \E p \in ParseParams, f \in ItemHooks :
       ParseEnter(p, "Module", [wrap |-> "Module", f |-> f])

parse_script ==
  /\ pc = "idle"
  /\ \E p \in ParseParams :
       ParseEnter(p, "Script", [wrap |-> "Program", f |-> "identity"])

parse_script_with_post_process ==
  /\ pc = "idle"
  /\ \E p \in ParseParams, f \in ItemHooks :
       ParseEnter(p, "Script", [wrap |-> "Script", f |-> f])

\* ParseInput with a slip: the fatal error is filed with the diagnostics and
\* parsing goes on with an empty module instead of returning.
ParseInputNoEarlyReturn ==
  /\ pc = "parse_string_input"
  /\ LET p == Unwrap(params)
         r == parse_string_input(p.text_info, Unwrap(syntax),
                                 p.capture_tokens, parse_mode)
     IN  /\ calls' = Append(calls, "parse_string_input")
         /\ IF ~r.ok
            THEN /\ diagnostics' = <<FromSwcError(r.err, p.specifier,
                                                  p.text_info)>>
                 /\ program' = Some(ProgramModule(<<>>))
                 /\ pc' = "post_process"
                 /\ UNCHANGED <<comments, tokens, ret>>
            ELSE /\ comments' = r.val.comments
                 /\ program' = Some(r.val.program)
                 /\ tokens' = r.val.tokens
                 /\ diagnostics' = CollectDiagnostics(r.val.errors, p.specifier,
                                                      p.text_info)
                 /\ pc' = "post_process"
                 /\ UNCHANGED ret
  /\ UNCHANGED <<params, parse_mode, post_process, syntax, syntax_contexts,
                 hook_input>>

\* parse(): the call of parse_string_input, the early return of the fatal
\* Diagnostic, and the collection of the diagnostics (lines 129-137).
ParseInput ==
  /\ pc = "parse_string_input"
  /\ LET p == Unwrap(params)
         r == parse_string_input(p.text_info, Unwrap(syntax),
                                 p.capture_tokens, parse_mode)
     IN  /\ calls' = Append(calls, "parse_string_input")
         /\ IF ~r.ok
            THEN /\ ret' = Some(Err(FromSwcError(r.err, p.specifier,
                                                 p.text_info)))
                 /\ pc' = "returned"
                 /\ UNCHANGED <<comments, program, tokens, diagnostics>>
            ELSE /\ comments' = r.val.comments
                 /\ program' = Some(r.val.program)
                 /\ tokens' = r.val.tokens
                 /\ diagnostics' = CollectDiagnostics(r.val.errors, p.specifier,
                                                      p.text_info)
                 /\ pc' = "post_process"
                 /\ UNCHANGED ret
  /\ UNCHANGED <<params, parse_mode, post_process, syntax, syntax_contexts,
                 hook_input>>

\* parse(): let program = post_process(program) (line 138).
PostProcess ==
  /\ pc = "post_process"
  /\ LET r == ApplyPostProcess(post_process, Unwrap(program))
     IN  /\ calls' = Append(calls, "post_process")
         /\ hook_input' = program
         /\ IF r.ok
            THEN /\ program' = Some(r.val)
                 /\ pc' = "scope_analysis"
            ELSE /\ pc' = "panicked"
                 /\ UNCHANGED program
  /\ UNCHANGED <<params, parse_mode, post_process, syntax, comments, tokens,
                 diagnostics, syntax_contexts, ret>>

\* SkipScopeAnalysis with a slip: default (empty) contexts instead of None.
SkipScopeAnalysisDefaultContexts ==
  /\ pc = "scope_analysis"
  /\ ~Unwrap(params).scope_analysis
  /\ syntax_contexts' = Some([unresolved |-> 0, top_level |-> 0])
  /\ pc' = "package"
  /\ UNCHANGED <<params, parse_mode, post_process, syntax, comments, program,
                 tokens, diagnostics, ret, calls, hook_input>>

\* parse(): scope analysis was not requested (lines 142-144).
SkipScopeAnalysis ==
  /\ pc = "scope_analysis"
  /\ ~Unwrap(params).scope_analysis
  /\ syntax_contexts' = None
  /\ pc' = "package"
  /\ UNCHANGED <<params, parse_mode, post_process, syntax, comments, program,
                 tokens, diagnostics, ret, calls, hook_input>>

\* ScopeAnalysisTransform with a slip: the resolver gets the tree as parsed,
\* not the tree the hook returned.
ScopeAnalysisTransformPreHook ==
  /\ pc = "scope_analysis"
  /\ Unwrap(params).scope_analysis
  /\ LET r == scope_analysis_transform_inner(Unwrap(hook_input))
     IN  /\ program' = Some(r.program)
         /\ syntax_contexts' = r.syntax_contexts
  /\ calls' = Append(calls, "scope_analysis_transform")
  /\ pc' = "package"
  /\ UNCHANGED <<params, parse_mode, post_process, syntax, comments, tokens,
                 diagnostics, ret, hook_input>>

\* scope_analysis_transform in a build with the "transforms" feature.
ScopeAnalysisTransform ==
  /\ pc = "scope_analysis"
  /\ Unwrap(params).scope_analysis
  /\ LET r == scope_analysis_transform_inner(Unwrap(program))
     IN  /\ program' = Some(r.program)
         /\ syntax_contexts' = r.syntax_contexts
  /\ calls' = Append(calls, "scope_analysis_transform")
  /\ pc' = "package"
  /\ UNCHANGED <<params, parse_mode, post_process, syntax, comments, tokens,
                 diagnostics, ret, hook_input>>

\* scope_analysis_transform in a build without the "transforms" feature.
ScopeAnalysisUnavailable ==
  /\ pc = "scope_analysis"
  /\ Unwrap(params).scope_analysis
  /\ calls' = Append(calls, "scope_analysis_transform")
  /\ pc' = "panicked"
  /\ UNCHANGED <<params, parse_mode, post_process, syntax, comments, program,
                 tokens, diagnostics, syntax_contexts, ret, hook_input>>

\* Package with a slip: the media type is derived from the syntax that was
\* used instead of being taken from the request.
PackageMediaFromSyntax ==
  /\ pc = "package"
  /\ LET p == Unwrap(params)
     IN  ret' = Some(Ok(ParsedSourceNew(p.specifier,
                                        IF Unwrap(syntax).flavor = "Es"
                                        THEN "JavaScript" ELSE "TypeScript",
                                        p.text_info,
                                        FromSingleThreaded(comments),
                                        Unwrap(program), tokens,
                                        syntax_contexts, diagnostics)))
  /\ calls' = Append(calls, "ParsedSource::new")
  /\ pc' = "returned"
  /\ UNCHANGED <<params, parse_mode, post_process, syntax, comments, program,
                 tokens, diagnostics, syntax_contexts, hook_input>>

\* parse(): Ok(ParsedSource::new(...)) (lines 146-155).
Package ==
  /\ pc = "package"
  /\ LET p == Unwrap(params)
     IN  ret' = Some(Ok(ParsedSourceNew(p.specifier, p.media_type,
                                        p.text_info,
                                        FromSingleThreaded(comments),
                                        Unwrap(program), tokens,
                                        syntax_contexts, diagnostics)))
  /\ calls' = Append(calls, "ParsedSource::new")
  /\ pc' = "returned"
  /\ UNCHANGED <<params, parse_mode, post_process, syntax, comments, program,
                 tokens, diagnostics, syntax_contexts, hook_input>>

Next ==
  \/ parse_program
  \/ parse_program_with_post_process
  \/ parse_module
  \/ parse_module_with_post_process
  \/ parse_script
  \/ parse_script_with_post_process
  \/ ParseInput
  \/ PostProcess
  \/ SkipScopeAnalysis
  \/ ScopeAnalysisTransform
  \/ ScopeAnalysisUnavailable
  \/ Package

Spec == Init /\ [][Next]_vars

-----------------------------------------------------------------------------
\* Vocabulary of the properties.

\* The call has returned Ok(ParsedSource).
Succeeded == pc = "returned" /\ ret # None /\ Unwrap(ret).ok

\* The call has returned Err(Diagnostic).
Failed == pc = "returned" /\ ret # None /\ ~Unwrap(ret).ok

\* parse_string_input has been called.
Parsed == pc \notin {"idle", "parse_string_input"}

\* How often parse() has made the named call.
CallCount(name) == Cardinality({k \in DOMAIN calls : calls[k] = name})

\* The lexer parse_string_input builds for the request.
RequestLexer ==
  LexerNew(Unwrap(syntax), ES_VERSION, Unwrap(params).text_info)

-----------------------------------------------------------------------------
\* C1: after every successful parse the ParsedSource has a token sequence
\* if and only if capture_tokens was true.  Without capture the field is None
\* and tokens() panics; with capture the field is exactly the sequence the
\* capturing lexer buffered, and tokens() returns it.
C1_TokensIffCaptured ==
  Succeeded =>
    LET ps == Unwrap(ret).val
        p == Unwrap(params)
    IN  /\ (ps.tokens # None) <=> p.capture_tokens
        /\ ~p.capture_tokens =>
             /\ ps.tokens = None
             /\ ~ParsedSourceTokens(ps).ok
        /\ p.capture_tokens =>
             /\ ps.tokens = Some(LexedTokens(CapturingNew(RequestLexer)))
             /\ ParsedSourceTokens(ps).ok
             /\ ParsedSourceTokens(ps).val =
                  LexedTokens(CapturingNew(RequestLexer))

\* A captured parse of a text made of a comment and one token.
C1_Witness ==
  /\ Succeeded
  /\ Unwrap(params).capture_tokens
  /\ \E i \in DOMAIN Unwrap(params).text_info :
       Unwrap(params).text_info[i] = "cmt"
  /\ Len(Unwrap(Unwrap(ret).val.tokens)) = 1

\* C2: after every successful parse the ParsedSource has scope markers if and
\* only if scope_analysis was true; without it the field is None, the
\* resolver was never run, and both marker accessors panic.
C2_ContextsIffScopeAnalysis ==
  /\ (pc # "idle" /\ ~Unwrap(params).scope_analysis) =>
       CallCount("scope_analysis_transform") = 0
  /\ Succeeded =>
       LET ps == Unwrap(ret).val
           p == Unwrap(params)
       IN  /\ (ps.syntax_contexts # None) <=> p.scope_analysis
           /\ ~p.scope_analysis =>
                /\ ps.syntax_contexts = None
                /\ ~ParsedSourceTopLevelContext(ps).ok
                /\ ~ParsedSourceUnresolvedContext(ps).ok
           /\ p.scope_analysis =>
                /\ CallCount("scope_analysis_transform") = 1
                /\ ParsedSourceTopLevelContext(ps).ok
                /\ ParsedSourceUnresolvedContext(ps).ok

C2_Witness ==
  /\ Succeeded
  /\ ~Unwrap(params).scope_analysis
  /\ ~ParsedSourceTopLevelContext(Unwrap(ret).val).ok

\* C3: when the parser hits an unrecoverable error, the call returns Err with
\* the Diagnostic of that (first) error, carrying the request's specifier and
\* source text; nothing is packaged, and neither the hook nor the resolver
\* has been called.
C3_FatalErrorAborts ==
  (Parsed /\ UnrecoverableAt(RequestLexer, parse_mode) # {}) =>
    LET p == Unwrap(params)
        e == FirstUnrecoverable(RequestLexer, parse_mode)
    IN  /\ Failed
        /\ Unwrap(ret).err = [specifier |-> p.specifier,
                              source |-> p.text_info,
                              span |-> e.span, kind |-> e.kind]
        /\ calls = <<"parse_string_input">>
        /\ program = None
        /\ hook_input = None
        /\ syntax_contexts = None

\* A module parse of a text whose second lexeme is fatal.
C3_Witness ==
  /\ Failed
  /\ parse_mode = "Module"
  /\ Len(Unwrap(params).text_info) = 2
  /\ Unwrap(ret).err.span = 2
  /\ Unwrap(ret).err.kind = "fatal"

\* The recoverable errors the parser collects for the request.
RequestErrors == ParserTakeErrors(RequestLexer)

\* The Diagnostic list that has one entry per recoverable error, in order.
ExpectedDiagnostics ==
  [k \in 1..Len(RequestErrors) |->
     [specifier |-> Unwrap(params).specifier,
      source |-> Unwrap(params).text_info,
      span |-> RequestErrors[k].span,
      kind |-> RequestErrors[k].kind]]

\* C4 as stated: whenever the parser returns a tree, the call ends by
\* returning Ok with one Diagnostic per recoverable error, in order.
C4_AsStated ==
  (pc \in {"returned", "panicked"}
     /\ UnrecoverableAt(RequestLexer, parse_mode) = {}) =>
    /\ Succeeded
    /\ Unwrap(ret).val.diagnostics = ExpectedDiagnostics

\* C4 (amended): whenever the parser returns a tree, the call never returns
\* Err; it ends by returning Ok unless scope_analysis is true in a build
\* without the "transforms" feature, where scope_analysis_transform panics.
\* The diagnostics hold exactly one Diagnostic per recoverable error, in the
\* same order, each with the request's specifier, and are empty exactly when
\* there was no recoverable error.
C4_RecoverableErrorsCollected ==
  (Parsed /\ UnrecoverableAt(RequestLexer, parse_mode) = {}) =>
    /\ ~Failed
    /\ diagnostics = ExpectedDiagnostics
    /\ pc = "panicked" =>
         /\ Unwrap(params).scope_analysis
         /\ calls[Len(calls)] = "scope_analysis_transform"
    /\ pc = "returned" =>
         /\ Succeeded
         /\ Unwrap(ret).val.diagnostics = ExpectedDiagnostics
         /\ Len(Unwrap(ret).val.diagnostics) = Len(RequestErrors)
         /\ \A k \in DOMAIN Unwrap(ret).val.diagnostics :
              Unwrap(ret).val.diagnostics[k].specifier =
                Unwrap(params).specifier
         /\ (Unwrap(ret).val.diagnostics = <<>>) <=> (RequestErrors = <<>>)

\* A successful parse with two recoverable errors.
C4_Witness ==
  /\ Succeeded
  /\ Len(Unwrap(ret).val.diagnostics) = 2
  /\ Unwrap(ret).val.diagnostics[1].span = 1
  /\ Unwrap(ret).val.diagnostics[2].span = 2

\* The tree parse_string_input returns for the request.
RequestTree ==
  parse_string_input(Unwrap(params).text_info, Unwrap(syntax),
                     Unwrap(params).capture_tokens, parse_mode).val.program

\* C5: in every parse that gets a tree, the hook is called exactly once, on
\* the tree as parsed, after parse_string_input and before the resolver; the
\* resolver (when scope_analysis is true) and the packaged ParsedSource work
\* on what the hook returned.
C5_HookOnceBeforeResolver ==
  /\ CallCount("post_process") <= 1
  /\ pc = "post_process" => calls = <<"parse_string_input">>
  /\ (Parsed /\ pc # "post_process"
        /\ UnrecoverableAt(RequestLexer, parse_mode) = {}) =>
       LET out == ApplyPostProcess(post_process, RequestTree)
           final == IF Unwrap(params).scope_analysis
                    THEN scope_analysis_transform_inner(out.val).program
                    ELSE out.val
       IN  /\ CallCount("post_process") = 1
           /\ calls[1] = "parse_string_input"
           /\ calls[2] = "post_process"
           /\ hook_input = Some(RequestTree)
           /\ \A k \in DOMAIN calls :
                calls[k] = "scope_analysis_transform" => k = 3
           /\ pc = "scope_analysis" => program = Some(out.val)
           /\ pc = "package" => program = Some(final)
           /\ Succeeded =>
                /\ Unwrap(ret).val.program = final
                /\ calls[Len(calls)] = "ParsedSource::new"

\* A successful parse with scope analysis whose hook rewrote the tree.
C5_Witness ==
  /\ Succeeded
  /\ Unwrap(params).scope_analysis
  /\ post_process.f = "inject"
  /\ calls = <<"parse_string_input", "post_process",
               "scope_analysis_transform", "ParsedSource::new">>
  /\ Unwrap(ret).val.program.body # Unwrap(hook_input).body
  /\ Unwrap(ret).val.program.resolved

\* C6: the syntax handed to the lexer is exactly maybe_syntax when it is
\* Some, whatever the media type, and exactly get_syntax(media_type) when it
\* is None.
C6_OverrideIsExact ==
  pc # "idle" =>
    LET p == Unwrap(params)
    IN  /\ p.maybe_syntax # None =>
             /\ syntax = p.maybe_syntax
             /\ RequestLexer.syntax = Unwrap(p.maybe_syntax)
        /\ p.maybe_syntax = None =>
             /\ syntax = Some(get_syntax(p.media_type))
             /\ RequestLexer.syntax = get_syntax(p.media_type)

\* A TypeScript request parsed under the EcmaScript override.
C6_Witness ==
  /\ pc = "returned"
  /\ Unwrap(params).media_type = "Tsx"
  /\ Unwrap(params).maybe_syntax # None
  /\ Unwrap(syntax).flavor = "Es"
  /\ Unwrap(syntax).decorators

\* C7: for the TypeScript media types get_syntax gives the TypeScript flavor
\* with decorators on, tsx on exactly for Tsx, dts on exactly for Dts, Dmts
\* and Dcts, and disallow_ambiguous_jsx_like on exactly for Mts and Cts.
C7_TypeScriptTable ==
  (pc # "idle" /\ Unwrap(params).maybe_syntax = None
     /\ Unwrap(params).media_type \in
          {"TypeScript", "Mts", "Cts", "Dts", "Dmts", "Dcts", "Tsx"}) =>
    LET m == Unwrap(params).media_type
        s == Unwrap(syntax)
    IN  /\ s.flavor = "Typescript"
        /\ s.decorators
        /\ s.tsx <=> m = "Tsx"
        /\ s.dts <=> m \in {"Dts", "Dmts", "Dcts"}
        /\ s.disallow_ambiguous_jsx_like <=> m \in {"Mts", "Cts"}

\* A .d.cts request parsed with the table's syntax.
C7_Witness ==
  /\ pc = "returned"
  /\ Unwrap(params).maybe_syntax = None
  /\ Unwrap(params).media_type = "Dcts"
  /\ Unwrap(syntax).dts
  /\ ~Unwrap(syntax).tsx

\* C8: get_syntax is defined for every media type, and for every media type
\* that is not a TypeScript one it gives the EcmaScript flavor with
\* decorators off, jsx on exactly for Jsx, and return-outside-function,
\* super-outside-method, auto-accessors, import attributes and explicit
\* resource management on.
C8_EcmaScriptTable ==
  /\ \A m \in MediaType :
       /\ m \in TypeScriptKinds \cup EcmaScriptKinds
       /\ get_syntax(m).flavor \in {"Es", "Typescript"}
  /\ (pc # "idle" /\ Unwrap(params).maybe_syntax = None
        /\ Unwrap(params).media_type \notin
             {"TypeScript", "Mts", "Cts", "Dts", "Dmts", "Dcts", "Tsx"}) =>
       LET m == Unwrap(params).media_type
           s == Unwrap(syntax)
       IN  /\ m \in {"JavaScript", "Mjs", "Cjs", "Jsx", "Json", "Wasm",
                     "TsBuildInfo", "SourceMap", "Unknown"}
           /\ s.flavor = "Es"
           /\ ~s.decorators
           /\ s.jsx <=> m = "Jsx"
           /\ s.allow_return_outside_function
           /\ s.allow_super_outside_method
           /\ s.auto_accessors
           /\ s.import_attributes
           /\ s.explicit_resource_management

\* A JavaScript request parsed with the table's syntax.
C8_Witness ==
  /\ pc = "returned"
  /\ Unwrap(params).maybe_syntax = None
  /\ Unwrap(params).media_type = "JavaScript"
  /\ Unwrap(syntax).flavor = "Es"
  /\ ~Unwrap(syntax).jsx

\* C9: after every successful parse the specifier, media type and source text
\* of the ParsedSource are those of the request, whatever the mode, the
\* override, the flags and the hook.
C9_RequestRoundTrip ==
  Succeeded =>
    /\ Unwrap(ret).val.specifier = Unwrap(params).specifier
    /\ Unwrap(ret).val.media_type = Unwrap(params).media_type
    /\ Unwrap(ret).val.text_info = Unwrap(params).text_info

\* A ".ts" specifier declared as JSON, parsed under the TypeScript override,
\* with tokens, scope analysis and a hook that swaps the variant.
C9_Witness ==
  /\ Succeeded
  /\ Unwrap(params).specifier = "my_file.ts"
  /\ Unwrap(params).media_type = "Json"
  /\ Unwrap(params).maybe_syntax # None
  /\ Unwrap(syntax).flavor = "Typescript"
  /\ Unwrap(params).capture_tokens
  /\ Unwrap(params).scope_analysis
  /\ post_process.f = "swap_variant"
  /\ Len(Unwrap(ret).val.text_info) = 2

\* The result of parse_string_input for the request with capture_tokens
\* flipped.
FlippedCapture ==
  parse_string_input(Unwrap(params).text_info, Unwrap(syntax),
                     ~Unwrap(params).capture_tokens, parse_mode)

\* C10: the run with capture_tokens flipped has the same outcome: both fail
\* with the same fatal error, or both succeed with the same variant, tree,
\* comments and recoverable errors; only the presence of the tokens differs.
C10_CaptureIsOrthogonal ==
  Parsed =>
    LET p == Unwrap(params)
        other == FlippedCapture
    IN  /\ Failed <=> ~other.ok
        /\ Failed =>
             Unwrap(ret).err = FromSwcError(other.err, p.specifier,
                                            p.text_info)
        /\ ~Failed =>
             /\ hook_input \in {None, Some(other.val.program)}
             /\ pc = "post_process" => program = Some(other.val.program)
             /\ comments = other.val.comments
             /\ diagnostics = CollectDiagnostics(other.val.errors,
                                                 p.specifier, p.text_info)
             /\ (tokens # None) <=> p.capture_tokens
             /\ (other.val.tokens # None) <=> ~p.capture_tokens
        /\ Succeeded =>
             LET out == ApplyPostProcess(post_process, other.val.program).val
             IN  /\ Unwrap(ret).val.program.kind = out.kind
                 /\ Unwrap(ret).val.program.body = out.body
                 /\ Unwrap(ret).val.comments =
                      FromSingleThreaded(other.val.comments)
                 /\ Unwrap(ret).val.diagnostics =
                      CollectDiagnostics(other.val.errors, p.specifier,
                                         p.text_info)

\* A module parse without capture of a text with a comment and a recoverable
\* error; the flipped run has tokens.
C10_Witness ==
  /\ Succeeded
  /\ ~Unwrap(params).capture_tokens
  /\ parse_mode = "Module"
  /\ Len(Unwrap(ret).val.comments.inner) = 1
  /\ Len(Unwrap(ret).val.diagnostics) = 1
  /\ FlippedCapture.ok
  /\ Len(Unwrap(FlippedCapture.val.tokens)) = 1

\* C11: the tree handed to the hook has the variant of the explicit mode
\* (Module in Module mode, Script in Script mode), so the unreachable!() arms
\* of the two wrappers never run: the only panic is the one of
\* scope_analysis_transform.  The tree packaged by
\* parse_module_with_post_process and parse_script_with_post_process has the
\* mode's variant.
C11_HookTreeMatchesMode ==
  /\ (hook_input # None /\ parse_mode # "Program") =>
       Unwrap(hook_input).kind = parse_mode
  /\ (pc = "post_process" /\ parse_mode # "Program") =>
       /\ Unwrap(program).kind = parse_mode
       /\ ApplyPostProcess(post_process, Unwrap(program)).ok
  /\ pc = "panicked" => calls[Len(calls)] = "scope_analysis_transform"
  /\ (Succeeded /\ post_process.wrap # "Program") =>
       /\ post_process.wrap = parse_mode
       /\ Unwrap(ret).val.program.kind = parse_mode

\* parse_module_with_post_process, without capture, of a text that
\* parse_program takes for a script: the hook got a Module and rewrote it.
C11_Witness ==
  /\ Succeeded
  /\ post_process = [wrap |-> "Module", f |-> "inject"]
  /\ ~Unwrap(params).capture_tokens
  /\ Unwrap(params).text_info = <<"stmt">>
  /\ ParserParseProgram(RequestLexer).val.kind = "Script"
  /\ Unwrap(hook_input).kind = "Module"
  /\ Unwrap(ret).val.program.body = <<"injected", "stmt">>

====
